---- MODULE Spec2Model ----
(***************************************************************************)
(* State-machine model of vite-plugin-svg-sprite.                          *)
(*                                                                         *)
(* Two variants of the plugin live in the repository: the current one      *)
(* (src/src/index.ts) and the earlier one (src/unnamed/part_000).  The     *)
(* option record carries the variant; every operation is translated from   *)
(* the variant's own code.                                                 *)
(*                                                                         *)
(* Strings the plugin builds (fragments, the sprite, the sprite file) are  *)
(* sequences of markup chunks, so that concatenation is \o and "byte       *)
(* identical" is equality of sequences.                                    *)
(***************************************************************************)
EXTENDS Integers, Sequences, FiniteSets, TLC

\* ------------------------------------------------------------------ bounds
\* file-system changes the environment makes in one run
MaxChanges == 1
\* generation passes in flight at the same time
MaxPasses == 1
\* hook invocations the host makes after the first configResolved
MaxHookCalls == 1
\* the same three bounds of the longer watch sessions of SpecSession
SessionChanges == 2
SessionPasses == 2
SessionHookCalls == 1
BuildChanges == 1
BuildPasses == 1
BuildHookCalls == 2
MaxIcons == 2
\* entries of one directory of the trees scanDirForSvgFiles is run on
MaxEntries == 2

\* ------------------------------------------------------------ path values
\* A path is the directory (a sequence of segments relative to the working
\* directory), the base name and the extension of the entry.
P(dir, base, ext) == [dir |-> dir, base |-> base, ext |-> ext]

\* String.prototype.endsWith('.svg') on a path or an entry name
EndsWithSvg(p) == p.ext = ".svg"

DirIcons == <<"icons">>
FileHome == P(DirIcons, "home", ".svg")
FileNotes == P(DirIcons, "notes", ".txt")
FileBrand == P(DirIcons, "brand", ".svg")

\* the iconDirs option the model runs with, in configured order
IconDirs == <<DirIcons>>

\* the entries a directory of the model's tree may hold, in listing order
Candidates(dir) ==
    IF dir = DirIcons THEN <<FileHome, FileNotes, FileBrand>>
    ELSE <<>>

AllFiles == {FileHome, FileNotes, FileBrand}
SvgFiles == {p \in AllFiles : EndsWithSvg(p)}

\* ------------------------------------------------------------ SVG sources
\* The text of an icon file: well-formed or not, the attributes of the root
\* element in source order, and the child nodes of the root.
Node(tag, inner) == [tag |-> tag, inner |-> inner]
IsElement(n) == n.tag \notin {"#text", "#comment"}

TextPlain ==
    [wellFormed |-> TRUE,
     attrs |-> << <<"viewBox", "0 0 32 32">>, <<"fill", "red">>, <<"width", "32">> >>,
     nodes |-> << Node("#comment", "made by hand"), Node("path", "M0 0h32") >>]
TextDefs ==
    [wellFormed |-> TRUE,
     attrs |-> << <<"height", "16">>, <<"stroke", "blue">> >>,
     nodes |-> << Node("defs", "linearGradient#g"), Node("#text", " "),
                  Node("rect", "fill=url(#g)") >>]
TextBroken ==
    [wellFormed |-> FALSE, attrs |-> <<>>, nodes |-> <<>>]
\* a root element with an id of its own that a use element refers to
TextIdent ==
    [wellFormed |-> TRUE,
     attrs |-> << <<"id", <<"logo">> >>, <<"viewBox", "0 0 16 16">>,
                  <<"height", "16">> >>,
     nodes |-> << Node("path", "M0 0h16"), Node("use", <<"logo">>) >>]
\* a root element with an id nothing refers to, and no viewBox
TextLoose ==
    [wellFormed |-> TRUE,
     attrs |-> << <<"id", <<"Layer_1">> >>, <<"class", "ico">> >>,
     nodes |-> << Node("circle", "r=4") >>]

\* contents a file of the model may hold; "absent" is a file that is not there
ContentIds == {"plain", "defs", "broken"}
Text(c) ==
    IF c = "plain" THEN TextPlain
    ELSE IF c = "defs" THEN TextDefs
    ELSE IF c = "ident" THEN TextIdent
    ELSE IF c = "loose" THEN TextLoose
    ELSE TextBroken

\* ---------------------------------------------------------------- chunks
Chunk(k, attrs, kids) == [k |-> k, attrs |-> attrs, kids |-> kids]
WS == Chunk("ws", <<>>, <<>>)
NL == Chunk("nl", <<>>, <<>>)
IsSpace(c) == c.k \in {"ws", "nl"}
NoEntry == Chunk("none", <<>>, <<>>)

\* attribute lists: .attr(key, value) replaces the value in place or appends
RECURSIVE HasAttr(_, _)
HasAttr(attrs, key) ==
    IF attrs = <<>> THEN FALSE
    ELSE IF Head(attrs)[1] = key THEN TRUE
    ELSE HasAttr(Tail(attrs), key)

RECURSIVE GetAttr(_, _)
GetAttr(attrs, key) ==
    IF attrs = <<>> THEN ""
    ELSE IF Head(attrs)[1] = key THEN Head(attrs)[2]
    ELSE GetAttr(Tail(attrs), key)

SetAttr(attrs, key, value) ==
    IF HasAttr(attrs, key)
    THEN [i \in 1..Len(attrs) |->
            IF attrs[i][1] = key THEN <<key, value>> ELSE attrs[i]]
    ELSE Append(attrs, <<key, value>>)

\* --------------------------------------------------------------- options
\* symbolId templates are sequences of literal pieces and placeholder tokens
TplDirName == <<"[dir]", "-", "[name]">>
TplNoName == <<"icon-", "[dir]">>
Templates == {TplDirName, TplNoName}

Variants == {"current", "legacy"}
Injects == {"none", "body-first", "body-last"}
FileNames == {"none", "sprite.svg"}

Options ==
    [variant : Variants, symbolId : Templates, svgDomId : {"svg-sprite"},
     inject : Injects, fileName : FileNames]

\* symbolId.includes('[name]')
IncludesName(tpl) == \E i \in 1..Len(tpl) : tpl[i] = "[name]"

\* String.prototype.replace with a string pattern: the first occurrence only
ReplaceFirst(s, token, value) ==
    IF \E i \in 1..Len(s) : s[i] = token
    THEN LET first == CHOOSE i \in 1..Len(s) :
                        /\ s[i] = token
                        /\ \A j \in 1..(i - 1) : s[j] # token
         IN [i \in 1..Len(s) |-> IF i = first THEN value ELSE s[i]]
    ELSE s

IsNonEmpty(x) == x # ""

generateSymbolId(tpl, filePath) ==
    LET dirName == IF Len(filePath.dir) = 0 THEN ""
                   ELSE filePath.dir[Len(filePath.dir)]
    IN SelectSeq(ReplaceFirst(ReplaceFirst(tpl, "[dir]", dirName),
                              "[name]", filePath.base),
                 IsNonEmpty)

\* ------------------------------------------------------ directory scanner
\* ls maps each directory that can be listed to its entries in listing
\* order; an entry is [base, ext, kind], kind one of "file", "dir", "link"
\* (lstat does not follow links, so a link is never a directory).
RECURSIVE scanDirForSvgFiles(_, _)
RECURSIVE ScanLoop(_, _, _, _)
\* a scan that does not descend into the subdirectories
ScanLoopFlat(ls, dir, files, allSvgFiles) ==
    LET svgs == SelectSeq(files, LAMBDA file : file.kind # "dir" /\ EndsWithSvg(file))
    IN allSvgFiles \o [i \in 1..Len(svgs) |-> P(dir, svgs[i].base, svgs[i].ext)]

ScanLoop(ls, dir, files, allSvgFiles) ==
    IF files = <<>> THEN allSvgFiles
    ELSE LET file == Head(files)
             filePath == P(dir, file.base, file.ext)
         IN IF file.kind = "dir"
            THEN ScanLoop(ls, dir, Tail(files),
                          allSvgFiles \o scanDirForSvgFiles(ls, dir \o <<file.base>>))
            ELSE IF EndsWithSvg(file)
            THEN ScanLoop(ls, dir, Tail(files), Append(allSvgFiles, filePath))
            ELSE ScanLoop(ls, dir, Tail(files), allSvgFiles)

scanDirForSvgFiles(ls, dir) == ScanLoop(ls, dir, ls[dir], <<>>)

\* fs.readdirSync throws on a directory that is not there
ScanThrows(ls, dir) == dir \notin DOMAIN ls

\* ------------------------------------------------------ symbol fragments
\* svgo's optimize: throws on text that is not well-formed; the default
\* preset drops comments and (cleanupIds, minify off) an id that no use
\* element of the file refers to; the viewBox stays (removeViewBox off).
OptimizeThrows(text) == ~text.wellFormed
Referenced(text, id) ==
    \E i \in 1..Len(text.nodes) : text.nodes[i].tag = "use" /\ text.nodes[i].inner = id
optimize(text) ==
    [text EXCEPT !.nodes = SelectSeq(text.nodes, LAMBDA n : n.tag # "#comment"),
                 !.attrs = SelectSeq(text.attrs,
                              LAMBDA a : a[1] = "id" => Referenced(text, a[2]))]

RECURSIVE CopyAttrs(_, _)
CopyAttrs(symAttrs, attrs) ==
    IF attrs = <<>> THEN symAttrs
    ELSE LET key == Head(attrs)[1]
             value == Head(attrs)[2]
         IN IF key # "width" /\ key # "height"
            THEN CopyAttrs(SetAttr(symAttrs, key, value), Tail(attrs))
            ELSE CopyAttrs(symAttrs, Tail(attrs))

\* a viewBox that is always the default
ViewBoxAlwaysDefault(attrs) == "0 0 24 24"

\* $svg.attr('viewBox') || '0 0 24 24'
ViewBoxOf(attrs) ==
    IF GetAttr(attrs, "viewBox") # "" THEN GetAttr(attrs, "viewBox")
    ELSE "0 0 24 24"

\* The cheerio steps of one cache miss.  Appending $svg.children() to the
\* symbol moves the element children out of the root, so the later
\* $svg.find('defs') searches what is left under the root.
BuildSymbol(variant, tpl, filePath, optimizedSvg) ==
    LET viewBox == ViewBoxOf(optimizedSvg.attrs)
        base == << <<"id", generateSymbolId(tpl, filePath)>>, <<"viewBox", viewBox>> >>
        symAttrs == IF variant = "current"
                    THEN CopyAttrs(base, optimizedSvg.attrs)
                    ELSE base
        moved == SelectSeq(optimizedSvg.nodes, IsElement)
        left == SelectSeq(optimizedSvg.nodes, LAMBDA n : ~IsElement(n))
        found == SelectSeq(left, LAMBDA n : n.tag = "defs")
        defsHtml == IF variant = "current" /\ Len(found) > 0
                    THEN <<Chunk("defs-inner", <<>>, <<found[1].inner>>)>>
                    ELSE <<>>
    IN [frag |-> Chunk("symbol", symAttrs, moved), defs |-> defsHtml]

\* ------------------------------------------------------- sprite document
Style(variant) ==
    IF variant = "current" THEN "position:absolute;width:0;height:0;"
    ELSE "display:none;"

SvgOpen(variant, svgDomId) ==
    Chunk("svg", << <<"xmlns", "http://www.w3.org/2000/svg">>,
                    <<"style", Style(variant)>>, <<"id", svgDomId>> >>, <<>>)
SvgClose == Chunk("/svg", <<>>, <<>>)
DefsOpen == Chunk("defs", <<>>, <<>>)
DefsClose == Chunk("/defs", <<>>, <<>>)

EmptySprite(variant, svgDomId) == <<SvgOpen(variant, svgDomId), SvgClose>>

\* an assembly that has lost the test for an empty svgSymbols and for empty
\* definitions
AssembleAlwaysWraps(variant, svgDomId, defs, svgSymbols) ==
    <<SvgOpen(variant, svgDomId), DefsOpen>> \o defs \o <<DefsClose>>
        \o svgSymbols \o <<SvgClose>>

\* the assembly at the end of generateSvgSprite
AssembleSprite(variant, svgDomId, defs, svgSymbols) ==
    IF Len(svgSymbols) > 0
    THEN LET defsContent == IF variant = "current" /\ defs # <<>>
                            THEN <<DefsOpen>> \o defs \o <<DefsClose>>
                            ELSE <<>>
         IN <<SvgOpen(variant, svgDomId)>> \o defsContent \o svgSymbols \o <<SvgClose>>
    ELSE EmptySprite(variant, svgDomId)

\* -------------------------------------------------------------- the page
\* Page markup as the host hands it over: a whole document, or a fragment
\* with no html, head or body tags.
Tag(k) == Chunk(k, <<>>, <<>>)
AppRoot == <<Chunk("div", << <<"id", "app">> >>, <<>>), Tag("/div")>>
PageWhole ==
    <<Tag("!doctype"), Tag("html"), Tag("head"), Tag("title"), Tag("/title"),
      Tag("/head"), Tag("body")>> \o AppRoot \o <<Tag("/body"), Tag("/html")>>
PageFragment == AppRoot
Pages == {PageWhole, PageFragment}

IndexOf(s, k) ==
    IF \E i \in 1..Len(s) : s[i].k = k
    THEN CHOOSE i \in 1..Len(s) : s[i].k = k /\ \A j \in 1..(i - 1) : s[j].k # k
    ELSE 0

Between(s, open, close) ==
    IF IndexOf(s, open) = 0 THEN <<>>
    ELSE SubSeq(s, IndexOf(s, open) + 1, IndexOf(s, close) - 1)

\* cheerio.load(html): the markup is parsed as a document, which always has
\* an html, a head and a body element; markup outside any body becomes the
\* body's content
Load(html) ==
    [doctype |-> Len(html) > 0 /\ html[1].k = "!doctype",
     head |-> Between(html, "head", "/head"),
     body |-> IF IndexOf(html, "body") # 0 THEN Between(html, "body", "/body")
              ELSE SelectSeq(html, LAMBDA c : c.k # "!doctype")]

\* $.html(): the document written out
Html(doc) ==
    (IF doc.doctype THEN <<Tag("!doctype")>> ELSE <<>>)
        \o <<Tag("html"), Tag("head")>> \o doc.head \o <<Tag("/head"), Tag("body")>>
        \o doc.body \o <<Tag("/body"), Tag("/html")>>

\* transformIndexHtml(html) with spriteContent = sprite
transformIndexHtml(inject, html, sprite) ==
    IF inject # "none"
    THEN LET doc == Load(html)
         IN Html([doc EXCEPT !.body = IF inject = "body-first"
                                      THEN sprite \o @ ELSE @ \o sprite])
    ELSE html

\* ------------------------------------------------------------ sprite file
RECURSIVE TrimStart(_)
TrimStart(s) ==
    IF s # <<>> /\ IsSpace(Head(s)) THEN TrimStart(Tail(s)) ELSE s

RECURSIVE TrimEnd(_)
TrimEnd(s) ==
    IF s # <<>> /\ IsSpace(s[Len(s)]) THEN TrimEnd(SubSeq(s, 1, Len(s) - 1)) ELSE s

\* String.prototype.trim
Trim(s) == TrimEnd(TrimStart(s))

\* the destination: whether its directory exists, whether the file exists,
\* and the file's content
NoFile == [dirExists |-> FALSE, present |-> FALSE, data |-> <<>>]
DirOnly == [dirExists |-> TRUE, present |-> FALSE, data |-> <<>>]
FileWith(data) == [dirExists |-> TRUE, present |-> TRUE, data |-> data]

Faults == {"none", "read", "write"}

\* a writeSpriteToFile that has lost the comparison with the existing file
writeSpriteAlways(dest, fault, content) ==
    IF fault = "write"
    THEN [dest |-> dest, wrote |-> FALSE, failed |-> TRUE]
    ELSE [dest |-> FileWith(Trim(content) \o <<NL>>), wrote |-> TRUE, failed |-> FALSE]

\* writeSpriteToFile on one destination: the destination afterwards, whether
\* a write was made and whether an error was caught and logged.  fault is
\* what the file system refuses: "read" makes readFileSync throw, "write"
\* makes mkdirSync or writeFileSync throw.
writeSpriteToFile(dest, fault, content) ==
    LET finalSpriteContent == Trim(content) \o <<NL>>
    IN IF dest.present /\ fault = "read"
       THEN [dest |-> dest, wrote |-> FALSE, failed |-> TRUE]
       ELSE IF dest.present /\ dest.data = finalSpriteContent
       THEN [dest |-> dest, wrote |-> FALSE, failed |-> FALSE]
       ELSE IF fault = "write"
       THEN [dest |-> dest, wrote |-> FALSE, failed |-> TRUE]
       ELSE [dest |-> FileWith(finalSpriteContent), wrote |-> TRUE, failed |-> FALSE]

\* ================================================================= state
VARIABLES
    opts,               \* the options svgSpritePlugin was called with
    host,               \* the host's resolved configuration
    phase,              \* "new", "thrown", "ready", "resolving", "running", "failed", "closed"
    spriteContent,      \* let spriteContent
    svgCache,           \* const svgCache: path -> fragment (NoEntry: no key)
    collectedDefs,      \* let collectedDefs
    watcher,            \* let watcher: "null" or "active"
    hasGeneratedSprite, \* let hasGeneratedSprite
    passes,             \* generateSvgSprite calls in flight, in start order
    timer,              \* the debounce timer of the dev path: "idle" or "armed"
    timerArg,           \* legacy: the arguments of the last debounced call
    serverHooked,       \* configureServer has registered its listener
    modLoaded,          \* the virtual module is in the server's module graph
    fs,                 \* icon files: path -> content id or "absent"
    gone,               \* icon directories that are missing
    disk,               \* sprite file destinations
    log,                \* what was logged, as a set
    changes,            \* file-system changes made so far
    hookCalls,          \* hook invocations made after the first configResolved
    ioDone,             \* a scan, read, write or watcher creation has happened
    hookError,          \* a hook or handler ended with an error nothing caught
    win,                \* the current debounce window and what happened in it
    tally,              \* regenerations and notifications so far, and whether
                        \* the last notification found the sprite file written
    lastWrite,          \* the last call of writeSpriteToFile
    done,               \* the pass that completed last, and how many have
    page,               \* the last call of transformIndexHtml
    build,              \* the host's current build and the sprite file writes
    synced,             \* a change handler has started since the last .svg change
    devWatchers,        \* legacy: the watchers watchSvgDirs has started
    scan,               \* the last call of scanDirForSvgFiles on a tree
    limits              \* the bounds this run is explored under

vars == <<opts, host, phase, spriteContent, svgCache, collectedDefs, watcher,
          hasGeneratedSprite, passes, timer, timerArg, serverHooked, modLoaded,
          fs, gone, disk, log, changes, hookCalls, ioDone, hookError,
          win, tally, lastWrite, done, page, build, synced, devWatchers, scan,
          limits>>

Hosts == [mode : {"serve", "build", "watch"}]

Dests == {"dist", "public"}
NoPath == P(<<>>, "", "")
Logged(lvl, msg, path) == [lvl |-> lvl, msg |-> msg, path |-> path]
NoPass == [caller |-> "none", symbols |-> <<>>, failed |-> {},
           at |-> [p \in AllFiles |-> "absent"], stable |-> FALSE]
NoWrite == [called |-> FALSE, tick |-> FALSE, before |-> NoFile,
            content |-> <<>>, wrote |-> FALSE, failed |-> FALSE]
NoPage == [called |-> FALSE, html |-> <<>>, sprite |-> <<>>, result |-> <<>>]
NoBuild == [bundled |-> FALSE, writes |-> 0]
NoScan == [called |-> FALSE, ls |-> <<>>, result |-> <<>>]

EmptyCache == [p \in SvgFiles |-> NoEntry]

TypeOK ==
    /\ opts \in Options
    /\ host \in Hosts
    /\ phase \in {"new", "thrown", "ready", "resolving", "running", "failed",
                "closed"}
    /\ watcher \in {"null", "active"}
    /\ hasGeneratedSprite \in BOOLEAN
    /\ Len(passes) <= limits.passes
    /\ timer \in {"idle", "armed"}
    /\ fs \in [AllFiles -> ContentIds \cup {"absent"}]
    /\ changes \in 0..limits.changes
    /\ hookCalls \in 0..limits.hooks

\* the plugin's closure after construction and a host that has done nothing
Fresh ==
    /\ phase = "new"
    /\ spriteContent = <<>>
    /\ collectedDefs = <<>>
    /\ watcher = "null"
    /\ hasGeneratedSprite = FALSE
    /\ passes = <<>>
    /\ timer = "idle"
    /\ timerArg = NoPath
    /\ serverHooked = FALSE
    /\ modLoaded = FALSE
    /\ fs = [p \in AllFiles |-> IF p = FileBrand THEN "absent" ELSE "plain"]
    /\ gone = {}
    /\ log = {}
    /\ changes = 0
    /\ hookCalls = 0
    /\ ioDone = FALSE
    /\ hookError = FALSE
    /\ win = [open |-> FALSE, events |-> 0, passes |-> 0]
    /\ tally = [regens |-> 0, reloads |-> 0, touches |-> 0, fileFirst |-> FALSE]
    /\ lastWrite = NoWrite
    /\ page = NoPage
    /\ build = NoBuild
    /\ synced = FALSE
    /\ devWatchers = 0
    /\ done = [last |-> NoPass, n |-> 0]

\* a construction that has lost the check of the [name] token
ConstructSkipsNameCheck(o) ==
    o.variant = "legacy" /\ o.inject = "none" /\ o.fileName = "none"

\* svgSpritePlugin(options): the checks made before the plugin is returned
ConstructThrows(o) ==
    \/ ~IncludesName(o.symbolId)
    \/ o.variant = "legacy" /\ o.inject = "none" /\ o.fileName = "none"

\* The option and host combinations a run starts from.  Left out are those
\* that behave like one that is kept: a host mode after a construction that
\* throws, the inject position in the current variant (only
\* transformIndexHtml reads it), the file name under the current variant's
\* dev server (nothing writes the file there), the inject position under
\* the legacy variant's dev server when a file name is set, and the legacy
\* variant under a watching build (it has no watcher of its own there).
Setups ==
    {su \in [opts : Options, host : Hosts] :
        /\ su.opts.inject # "body-first"
        /\ ConstructThrows(su.opts) =>
              /\ su.host.mode = "build"
              /\ su.opts.fileName = "none"
              /\ su.opts.inject = "none"
        /\ su.opts.variant = "current" =>
              /\ su.opts.inject = "none"
              /\ su.host.mode = "serve" /\ IncludesName(su.opts.symbolId)
                    => su.opts.fileName = "none"
        /\ su.opts.variant = "legacy" =>
              /\ su.host.mode # "watch"
              /\ su.host.mode = "serve" /\ su.opts.fileName # "none"
                    => su.opts.inject = "none"}

\* the same, with every inject position where transformIndexHtml can run
\* and with a file name under the current variant's dev server
BuildSetups ==
    Setups \cup
    {su \in [opts : Options, host : Hosts] :
        /\ ~ConstructThrows(su.opts)
        /\ \/ /\ su.opts.inject # "none"
              /\ su.opts.fileName = "none"
              /\ su.host.mode = "build"
           \/ /\ su.opts.variant = "current"
              /\ su.opts.inject = "none"
              /\ su.opts.fileName # "none"
              /\ su.host.mode = "serve"}

Init ==
    /\ \E su \in Setups : opts = su.opts /\ host = su.host
    /\ limits = [changes |-> MaxChanges, passes |-> MaxPasses, hooks |-> MaxHookCalls]
    /\ disk = [d \in Dests |-> NoFile]
    /\ Fresh
    /\ scan = NoScan
    /\ svgCache = EmptyCache

\* ----------------------------------------------------------- construction
Construct ==
    /\ phase = "new"
    /\ phase' = IF ConstructThrows(opts) THEN "thrown" ELSE "ready"
    /\ UNCHANGED <<build, synced, page, limits, opts, host, devWatchers, scan, spriteContent, svgCache, collectedDefs, watcher,
                   hasGeneratedSprite, passes, timer, timerArg, serverHooked,
                   modLoaded, fs, gone, disk, log, changes, hookCalls,
                   ioDone, hookError, win, tally, lastWrite, done>>

\* ------------------------------------------------------- generation pass
\* what readdirSync and lstatSync see: the directories that can be listed
\* and, for each, the entries that are there
Ls(files, missing) ==
    [d \in {IconDirs[i] : i \in 1..Len(IconDirs)} \ missing |->
        LET there == SelectSeq(Candidates(d), LAMBDA p : files[p] # "absent")
        IN [i \in 1..Len(there) |->
              [base |-> there[i].base, ext |-> there[i].ext, kind |-> "file"]]]

SeqToSet(s) == {s[i] : i \in 1..Len(s)}

\* iconDirs.map(async (dir) => ...): the scan of one directory throws inside
\* its own async function, so the call rejects while the other directories
\* are scanned all the same
AnyScanThrows(ls) == \E i \in 1..Len(IconDirs) : ScanThrows(ls, IconDirs[i])

\* the files whose reads a call of generateSvgSprite issues: those of every
\* directory whose scan returns
IssuedReads(ls) ==
    UNION {SeqToSet(scanDirForSvgFiles(ls, IconDirs[i])) :
              i \in {j \in 1..Len(IconDirs) : ~ScanThrows(ls, IconDirs[j])}}

ErrRead(path) == Logged("error", "Error reading or processing SVG file", path)
WarnEmpty == Logged("warn", "No SVG symbols were generated.", NoPath)
ErrWrite == Logged("error", "Error writing sprite file", NoPath)
ErrChange == Logged("error", "Error handling SVG change", NoPath)
WarnEntry == Logged("warn", "Entry file not found - skipping rebuild trigger", NoPath)

\* a per-file callback whose catch logs the error without the path
ProcessFileNoPath(filePath, svgContent, cache, defs) ==
    LET failure == [cache |-> cache, defs |-> defs, entry |-> <<>>,
                    failed |-> TRUE, log |-> {ErrRead(NoPath)}]
    IN IF svgContent = "absent" THEN failure
       ELSE IF cache[filePath] = NoEntry
       THEN IF OptimizeThrows(Text(svgContent)) THEN failure
            ELSE LET built == BuildSymbol(opts.variant, opts.symbolId, filePath,
                                          optimize(Text(svgContent)))
                 IN [cache |-> [cache EXCEPT ![filePath] = built.frag],
                     defs |-> defs \o built.defs,
                     entry |-> <<[path |-> filePath, frag |-> built.frag,
                                  read |-> svgContent]>>,
                     failed |-> FALSE, log |-> {}]
       ELSE [cache |-> cache, defs |-> defs,
             entry |-> <<[path |-> filePath, frag |-> cache[filePath],
                          read |-> svgContent]>>,
             failed |-> FALSE, log |-> {}]

\* The body of the per-file callback once readFile has settled with
\* svgContent ("absent": the read failed): the cache and the definitions
\* afterwards, what is appended to svgSymbols (with the path and the content
\* read, kept for the record), and what is logged.
ProcessFile(filePath, svgContent, cache, defs) ==
    LET failure == [cache |-> cache, defs |-> defs, entry |-> <<>>,
                    failed |-> TRUE, log |-> {ErrRead(filePath)}]
    IN IF svgContent = "absent" THEN failure
       ELSE IF cache[filePath] = NoEntry
       THEN IF OptimizeThrows(Text(svgContent)) THEN failure
            ELSE LET built == BuildSymbol(opts.variant, opts.symbolId, filePath,
                                          optimize(Text(svgContent)))
                 IN [cache |-> [cache EXCEPT ![filePath] = built.frag],
                     defs |-> defs \o built.defs,
                     entry |-> <<[path |-> filePath, frag |-> built.frag,
                                  read |-> svgContent]>>,
                     failed |-> FALSE, log |-> {}]
       ELSE [cache |-> cache, defs |-> defs,
             entry |-> <<[path |-> filePath, frag |-> cache[filePath],
                          read |-> svgContent]>>,
             failed |-> FALSE, log |-> {}]

Frags(symbols) == [i \in 1..Len(symbols) |-> symbols[i].frag]

Record(pass) ==
    [caller |-> pass.caller, symbols |-> pass.symbols, failed |-> pass.failed,
     at |-> pass.at, stable |-> pass.stable]

\* a call of writeSpriteToFile whose catch block logs nothing
WriteUnlogged(publicDir, f, content, logNow) ==
    LET w == writeSpriteToFile(disk[publicDir], f, content)
    IN /\ disk' = [disk EXCEPT ![publicDir] = w.dest]
       /\ log' = logNow
       /\ lastWrite' = [called |-> TRUE, tick |-> ~lastWrite.tick,
                        before |-> disk[publicDir], content |-> content,
                        wrote |-> w.wrote, failed |-> w.failed]

\* a call writeSpriteToFile(publicDir, fileName, content) the file system
\* answers with fault f: the variables a write touches
Write(publicDir, f, content, logNow) ==
    LET w == writeSpriteToFile(disk[publicDir], f, content)
    IN /\ disk' = [disk EXCEPT ![publicDir] = w.dest]
       /\ log' = IF w.failed THEN logNow \cup {ErrWrite} ELSE logNow
       /\ lastWrite' = [called |-> TRUE, tick |-> ~lastWrite.tick,
                        before |-> disk[publicDir], content |-> content,
                        wrote |-> w.wrote, failed |-> w.failed]

\* a sprite file holding content, as writeSpriteToFile would leave it, is
\* at one of the destinations dk
OnDisk(dk, content) ==
    \E d \in Dests : dk[d].present /\ dk[d].data = Trim(content) \o <<NL>>

\* generateSvgSprite from its Promise.all barrier on, and then the rest of
\* the caller that awaited it.  A pass whose scan threw has rejected long
\* before its reads settle: nothing is assembled for it.
Complete(pass, defsNow, logNow) ==
    IF pass.dead
    THEN /\ log' = logNow
         /\ UNCHANGED <<phase, spriteContent, watcher, disk, tally, lastWrite, done>>
    ELSE
    LET doc == AssembleSprite(opts.variant, opts.svgDomId, defsNow, Frags(pass.symbols))
        warned == IF Len(pass.symbols) > 0 THEN logNow ELSE logNow \cup {WarnEmpty}
    IN
    /\ spriteContent' = doc
    /\ done' = [last |-> Record(pass), n |-> done.n + 1]
    /\ CASE pass.caller = "configResolved" ->
              /\ phase' = "running"
              /\ watcher' = IF opts.variant = "current" /\ watcher = "null"
                               /\ host.mode = "watch"
                            THEN "active" ELSE watcher
              /\ log' = warned
              /\ UNCHANGED <<disk, tally, lastWrite>>
         [] pass.caller = "watchChange" ->
              \E entryThere \in BOOLEAN :
              LET entryLog == IF entryThere THEN warned ELSE warned \cup {WarnEntry}
              IN /\ IF opts.fileName # "none"
                    THEN \E f \in Faults : Write("dist", f, doc, entryLog)
                    ELSE /\ log' = entryLog
                         /\ UNCHANGED <<disk, lastWrite>>
                 /\ tally' = IF entryThere
                             THEN [tally EXCEPT !.touches = @ + 1,
                                                !.fileFirst = OnDisk(disk', doc)]
                             ELSE tally
                 /\ UNCHANGED <<phase, watcher>>
         [] pass.caller = "devChange" ->
              /\ tally' = [tally EXCEPT !.regens = @ + 1,
                                        !.reloads = IF modLoaded THEN @ + 1 ELSE @,
                                        !.fileFirst = IF modLoaded
                                                      THEN OnDisk(disk, doc) ELSE @]
              /\ log' = warned
              /\ UNCHANGED <<phase, watcher, disk, lastWrite>>
         [] pass.caller = "legacyChange" ->
              /\ tally' = [tally EXCEPT !.regens = @ + 1, !.reloads = @ + 1,
                                        !.fileFirst = OnDisk(disk, doc)]
              /\ IF opts.fileName # "none"
                 THEN \E f \in Faults : Write("public", f, doc, warned)
                 ELSE /\ log' = warned
                      /\ UNCHANGED <<disk, lastWrite>>
              /\ UNCHANGED <<phase, watcher>>

\* a scan threw inside generateSvgSprite: what the caller makes of it
Thrown(caller) ==
    /\ phase' = IF caller = "configResolved" THEN "failed" ELSE phase
    /\ hookError' = IF caller \in {"configResolved", "legacyChange"}
                    THEN TRUE ELSE hookError
    /\ log' = IF caller \in {"watchChange", "devChange"}
              THEN log \cup {ErrChange} ELSE log
    /\ UNCHANGED <<spriteContent, watcher, disk, tally, lastWrite, done>>

\* A call of generateSvgSprite by caller, with the cache and definitions the
\* caller left: the scans run at once, the reads are issued, and the call
\* suspends until they have all settled.  seen keeps, for a read that has
\* not settled, the contents the file has held since the read was issued:
\* the read settles with one of them.  at is the file system the scan saw,
\* stable whether it has stayed that way since.
Begin(caller, cache0, defs0, others) ==
    LET ls == Ls(fs', gone')
        files == IssuedReads(ls)
        threw == AnyScanThrows(ls)
        pass == [caller |-> caller, pending |-> files,
                 seen |-> [p \in SvgFiles |-> IF p \in files THEN {fs'[p]} ELSE {}],
                 symbols |-> <<>>, failed |-> {}, dead |-> threw,
                 at |-> fs', stable |-> TRUE]
    IN
    /\ svgCache' = cache0
    /\ collectedDefs' = defs0
    /\ ioDone' = TRUE
    /\ passes' = IF files = {} THEN others ELSE Append(others, pass)
    /\ IF threw THEN Thrown(caller)
       ELSE IF files = {}
       THEN Complete(pass, defs0, log) /\ UNCHANGED hookError
       ELSE /\ phase' = IF caller = "configResolved" THEN "resolving" ELSE phase
            /\ UNCHANGED <<spriteContent, watcher, disk, log, tally, lastWrite,
                           done, hookError>>

RemoveAt(s, i) == SubSeq(s, 1, i - 1) \o SubSeq(s, i + 1, Len(s))

\* one readFile of a pass settles with svgContent and the callback's body
\* runs; the last one releases the barrier
ReadComplete(i, filePath, svgContent) ==
    /\ i \in 1..Len(passes)
    /\ filePath \in passes[i].pending
    /\ svgContent \in passes[i].seen[filePath]
    /\ LET r == ProcessFile(filePath, svgContent, svgCache, collectedDefs)
           pass == [passes[i] EXCEPT
                      !.pending = @ \ {filePath},
                      !.seen[filePath] = {},
                      !.symbols = @ \o r.entry,
                      !.failed = IF r.failed THEN @ \cup {filePath} ELSE @]
       IN /\ svgCache' = r.cache
          /\ collectedDefs' = r.defs
          /\ IF pass.pending # {}
             THEN /\ passes' = [passes EXCEPT ![i] = pass]
                  /\ log' = log \cup r.log
                  /\ UNCHANGED <<phase, spriteContent, watcher, disk, tally,
                                 lastWrite, done>>
             ELSE /\ passes' = RemoveAt(passes, i)
                  /\ Complete(pass, r.defs, log \cup r.log)
    /\ UNCHANGED <<build, synced, page, limits, opts, host, devWatchers, scan, hasGeneratedSprite, timer, timerArg, serverHooked,
                   modLoaded, fs, gone, changes, hookCalls, ioDone,
                   hookError, win>>

\* ------------------------------------------------------------------ hooks
\* configResolved: the first call, or a later one on the same instance
ConfigResolved ==
    /\ \/ phase = "ready" /\ UNCHANGED hookCalls
       \/ phase = "running" /\ hookCalls < limits.hooks /\ hookCalls' = hookCalls + 1
    /\ Len(passes) < limits.passes
    /\ hasGeneratedSprite' = FALSE
    /\ build' = NoBuild
    /\ UNCHANGED <<fs, gone, changes>>
    /\ Begin("configResolved", svgCache, collectedDefs, passes)
    /\ UNCHANGED <<synced, page, limits, opts, host, devWatchers, scan, timer, timerArg, serverHooked, modLoaded, win>>

\* generateBundle(options): options.dir is the host's output directory, or
\* is not set
GenerateBundle(dir) ==
    /\ phase = "running"
    /\ host.mode \in {"build", "watch"}
    /\ hookCalls < limits.hooks
    /\ hookCalls' = hookCalls + 1
    /\ LET publicDir == IF dir = "none" THEN "public" ELSE dir
           writes == IF opts.variant = "current"
                     THEN opts.fileName # "none" /\ ~hasGeneratedSprite
                     ELSE opts.fileName # "none" /\ opts.inject = "none"
       IN /\ IF writes
             THEN \E f \in Faults : Write(publicDir, f, spriteContent, log)
             ELSE UNCHANGED <<disk, log, lastWrite>>
          /\ ioDone' = (ioDone \/ writes)
          /\ build' = [bundled |-> TRUE,
                       writes |-> IF writes THEN build.writes + 1 ELSE build.writes]
          /\ hasGeneratedSprite' = IF opts.variant = "current" /\ writes
                                   THEN TRUE ELSE hasGeneratedSprite
    /\ UNCHANGED <<synced, page, limits, opts, host, devWatchers, scan, phase, spriteContent, svgCache, collectedDefs,
                   watcher, passes, timer, timerArg, serverHooked, modLoaded, fs,
                   gone, changes, hookError, win, tally, done>>

\* closeBundle() of the current variant; this.meta.watchMode is the host's
\* watch mode.  final: it is the last call the host makes in the session.
CloseBundle(final) ==
    /\ phase = "running"
    /\ opts.variant = "current"
    /\ host.mode \in {"build", "watch"}
    /\ hookCalls < limits.hooks
    /\ hookCalls' = hookCalls + 1
    /\ watcher' = IF watcher = "active" /\ host.mode # "watch" THEN "null" ELSE watcher
    /\ phase' = IF final THEN "closed" ELSE phase
    /\ UNCHANGED <<build, synced, page, limits, opts, host, devWatchers, scan,
                   spriteContent, svgCache, collectedDefs, hasGeneratedSprite,
                   passes, timer, timerArg, serverHooked, modLoaded, fs, gone, disk,
                   log, changes, ioDone, hookError, win, tally, lastWrite, done>>

\* The host of a watching build starts the next build of the session: the
\* build hooks run again on the same instance, configResolved does not.
Rebuild ==
    /\ phase = "running"
    /\ host.mode = "watch"
    /\ build.bundled
    /\ build' = NoBuild
    /\ UNCHANGED <<synced, page, limits, opts, host, devWatchers, scan, phase, spriteContent, svgCache,
                   collectedDefs, watcher, hasGeneratedSprite, passes, timer,
                   timerArg, serverHooked, modLoaded, fs, gone, disk, log, changes,
                   hookCalls, ioDone, hookError, win, tally, lastWrite, done>>

\* configureServer(server).  The current variant adds a listener to the
\* server's watcher; the legacy variant starts a watcher of its own, which
\* nothing ever closes and which reports the files already there as added,
\* in listing order (the last report is the one the debounced handler is
\* called with).  again: the host calls the hook once more on the same
\* instance, with a new server whose module graph is empty.  The repeated
\* call is explored once the file system is quiet, no pass is in flight and
\* no timer is armed, so that the one timer of the model is the timer of the
\* listener registered last.
ConfigureServer(again) ==
    /\ phase = "running"
    /\ host.mode = "serve"
    /\ IF again
       THEN /\ serverHooked
            /\ timer = "idle" /\ passes = <<>> /\ changes = limits.changes
            /\ hookCalls < limits.hooks
            /\ hookCalls' = hookCalls + 1
            /\ modLoaded' = FALSE
       ELSE /\ ~serverHooked
            /\ UNCHANGED <<hookCalls, modLoaded>>
    /\ serverHooked' = TRUE
    /\ IF opts.variant = "legacy"
       THEN LET there == SelectSeq(Candidates(DirIcons),
                                   LAMBDA p : fs[p] # "absent" /\ p.dir \notin gone)
            IN /\ devWatchers' = devWatchers + 1
               /\ ioDone' = TRUE
               /\ IF there = <<>>
                  THEN UNCHANGED <<timer, timerArg>>
                  ELSE /\ timer' = "armed"
                       /\ timerArg' = there[Len(there)]
       ELSE UNCHANGED <<devWatchers, ioDone, timer, timerArg>>
    /\ UNCHANGED <<build, synced, page, limits, opts, host, scan, phase, spriteContent,
                   svgCache, collectedDefs, watcher, hasGeneratedSprite, passes, fs,
                   gone, disk, log, changes, hookError, win, tally, lastWrite, done>>

\* load('\0virtual:svg-sprite') of the current variant: the dev server puts
\* the virtual module into its module graph
LoadVirtual ==
    /\ phase = "running"
    /\ opts.variant = "current"
    /\ host.mode = "serve"
    /\ ~modLoaded
    /\ modLoaded' = TRUE
    /\ UNCHANGED <<build, synced, page, limits, opts, host, devWatchers, scan, phase, spriteContent, svgCache, collectedDefs,
                   watcher, hasGeneratedSprite, passes, timer, timerArg,
                   serverHooked, fs, gone, disk, log, changes, hookCalls,
                   ioDone, hookError, win, tally, lastWrite, done>>

\* transformIndexHtml(html): the host hands over a page
TransformIndexHtml(html) ==
    /\ phase = "running"
    /\ hookCalls < limits.hooks
    /\ hookCalls' = hookCalls + 1
    /\ page' = [called |-> TRUE, html |-> html, sprite |-> spriteContent,
                result |-> transformIndexHtml(opts.inject, html, spriteContent)]
    /\ UNCHANGED <<build, synced, limits, opts, host, devWatchers, scan, spriteContent, svgCache,
                   collectedDefs, watcher, hasGeneratedSprite, passes, timer,
                   timerArg, serverHooked, modLoaded, fs, gone, disk, log, changes,
                   phase, ioDone, hookError, win, tally, lastWrite, done>>

\* ------------------------------------------------------------ environment
\* the passes in flight after filePath has come to hold content
Disturbed(ps, filePath, content) ==
    [i \in 1..Len(ps) |->
        [ps[i] EXCEPT !.stable = FALSE,
                      !.seen = [p \in SvgFiles |->
                                  IF p = filePath /\ p \in ps[i].pending
                                  THEN @[p] \cup {content} ELSE @[p]]]]

WinEvent(qualifies, started) ==
    [open |-> TRUE,
     events |-> (IF win.open THEN win.events ELSE 0) + (IF qualifies THEN 1 ELSE 0),
     passes |-> (IF win.open THEN win.passes ELSE 0) + (IF started THEN 1 ELSE 0)]

\* no call of generateSvgSprite is made
Quiet(ps) ==
    /\ passes' = ps
    /\ UNCHANGED <<svgCache, collectedDefs, ioDone, hookError, phase,
                   spriteContent, watcher, disk, log, tally, lastWrite, done>>

\* A watcher event for filePath reaches whatever listens:
\*   the onChange of the watcher configResolved created (build watch),
\*   the 'all' listener of configureServer (dev server),
\*   the debounced handleSvgChange of the legacy variant.
Deliver(filePath, ps) ==
    /\ synced' = IF EndsWithSvg(filePath)
                 THEN opts.variant = "current" /\ watcher = "active"
                 ELSE synced
    /\ IF opts.variant = "current" /\ watcher = "active"
       THEN /\ UNCHANGED <<timer, timerArg>>
            /\ win' = WinEvent(EndsWithSvg(filePath), EndsWithSvg(filePath))
            /\ IF EndsWithSvg(filePath)
               THEN /\ Len(ps) < limits.passes
                    /\ Begin("watchChange", EmptyCache, <<>>, ps)
               ELSE Quiet(ps)
       ELSE IF opts.variant = "current" /\ serverHooked
       THEN /\ timer' = IF EndsWithSvg(filePath) THEN "armed" ELSE timer
            /\ UNCHANGED timerArg
            /\ win' = WinEvent(EndsWithSvg(filePath), FALSE)
            /\ Quiet(ps)
       ELSE IF opts.variant = "legacy" /\ serverHooked
       THEN /\ timer' = "armed"
            /\ timerArg' = filePath
            /\ win' = WinEvent(EndsWithSvg(filePath), FALSE)
            /\ Quiet(ps)
       ELSE /\ UNCHANGED <<timer, timerArg, win>>
            /\ Quiet(ps)

Live == phase \in {"ready", "resolving", "running"}

\* the contents a change may give a file: home.svg is rewritten (also with
\* the content it had) or removed, brand.svg is added or rewritten, well
\* formed or not, any other file is written
NewContents(filePath) ==
    IF filePath = FileHome THEN {"plain", "defs", "absent"}
    ELSE IF filePath = FileBrand THEN {"plain", "broken"}
    ELSE {"plain"}

FsChange(filePath, content) ==
    /\ Live
    /\ changes < limits.changes
    /\ filePath.dir \notin gone
    /\ content \in NewContents(filePath)
    /\ ~(fs[filePath] = "absent" /\ content = "absent")
    /\ changes' = changes + 1
    /\ fs' = [fs EXCEPT ![filePath] = content]
    /\ UNCHANGED gone
    /\ Deliver(filePath, Disturbed(passes, filePath, content))
    /\ UNCHANGED <<build, page, limits, opts, host, devWatchers, scan, hasGeneratedSprite, serverHooked, modLoaded,
                   hookCalls>>

RECURSIVE DisturbedAll(_, _)
DisturbedAll(ps, files) ==
    IF files = {} THEN ps
    ELSE LET p == CHOOSE q \in files : TRUE
         IN DisturbedAll(Disturbed(ps, p, "absent"), files \ {p})

\* an icon directory is removed with what it holds
RemoveDir(dir) ==
    /\ Live
    /\ changes < limits.changes
    /\ dir \notin gone
    /\ changes' = changes + 1
    /\ gone' = gone \cup {dir}
    /\ fs' = [p \in AllFiles |-> IF p.dir = dir THEN "absent" ELSE fs[p]]
    /\ Deliver(CHOOSE p \in SvgFiles : p.dir = dir,
               DisturbedAll(passes, {p \in SvgFiles : p.dir = dir}))
    /\ UNCHANGED <<build, page, limits, opts, host, devWatchers, scan, hasGeneratedSprite, serverHooked, modLoaded,
                   hookCalls>>

\* The debounce window runs out with no further event.  An armed timer
\* fires: handleDevChange in the current variant, the debounced
\* handleSvgChange with the last call's arguments in the legacy one.
Elapse ==
    /\ win.open \/ timer = "armed"
    /\ timer' = "idle"
    /\ UNCHANGED <<timerArg, fs, gone, changes>>
    /\ LET fires == /\ timer = "armed"
                    /\ opts.variant = "legacy" => EndsWithSvg(timerArg)
       IN /\ win' = [win EXCEPT !.open = FALSE,
                                !.passes = IF fires THEN @ + 1 ELSE @]
          /\ synced' = (synced \/ fires)
          /\ IF fires
             THEN /\ Len(passes) < limits.passes
                  /\ IF opts.variant = "current"
                     THEN Begin("devChange", EmptyCache, <<>>, passes)
                     ELSE Begin("legacyChange", EmptyCache, collectedDefs, passes)
             ELSE Quiet(passes)
    /\ UNCHANGED <<build, page, limits, opts, host, devWatchers, scan, hasGeneratedSprite, serverHooked, modLoaded,
                   hookCalls>>

Next ==
    \/ Construct
    \/ ConfigResolved
    \/ \E i \in 1..Len(passes), p \in SvgFiles, c \in ContentIds \cup {"absent"} :
          ReadComplete(i, p, c)
    \/ \E dir \in {"dist", "none"} : GenerateBundle(dir)
    \/ CloseBundle(FALSE)
    \/ ConfigureServer(FALSE)
    \/ LoadVirtual
    \/ \E p \in AllFiles, c \in ContentIds \cup {"absent"} : FsChange(p, c)
    \/ \E dir \in {IconDirs[i] : i \in 1..Len(IconDirs)} : RemoveDir(dir)
    \/ Elapse

Spec == Init /\ [][Next]_vars

\* The same plugin under a longer session: two changes, two passes in
\* flight.
InitSession ==
    /\ \E su \in Setups : opts = su.opts /\ host = su.host
    /\ limits = [changes |-> SessionChanges, passes |-> SessionPasses,
                 hooks |-> SessionHookCalls]
    /\ disk = [d \in Dests |-> NoFile]
    /\ Fresh
    /\ scan = NoScan
    /\ svgCache = EmptyCache

SpecSession == InitSession /\ [][Next]_vars

\* The plugin under a host that also transforms pages and, when it watches,
\* builds again: one change, two hook calls.
InitBuild ==
    /\ \E su \in BuildSetups : opts = su.opts /\ host = su.host
    /\ limits = [changes |-> BuildChanges, passes |-> BuildPasses,
                 hooks |-> BuildHookCalls]
    /\ disk = [d \in Dests |-> NoFile]
    /\ Fresh
    /\ scan = NoScan
    /\ svgCache = EmptyCache

NextBuild ==
    \/ Next
    \/ Rebuild
    \/ CloseBundle(TRUE)
    \/ ConfigureServer(TRUE)
    \/ \E html \in Pages : TransformIndexHtml(html)

SpecBuild == InitBuild /\ [][NextBuild]_vars

\* ---------------------------------------------- writeSpriteToFile alone
\* Sprite contents as a caller may pass them: a document, with or without
\* white space around it.
Paddings == {<<>>, <<WS>>, <<NL>>, <<NL, WS>>, <<NL, NL>>}
Documents ==
    {EmptySprite("current", "svg-sprite"),
     AssembleSprite("current", "svg-sprite", <<>>,
                    <<BuildSymbol("current", TplDirName, FileHome,
                                  optimize(TextPlain)).frag>>)}
Contents == {l \o d \o t : l \in Paddings, d \in Documents, t \in Paddings}

\* the destinations it may find: no directory, no file, a file holding a
\* document with or without the final newline, an empty file
Destinations ==
    {NoFile, DirOnly, FileWith(<<>>)} \cup
    {FileWith(d \o t) : d \in Documents, t \in {<<>>, <<NL>>}}

InitWrite ==
    /\ opts = [variant |-> "current", symbolId |-> TplDirName,
               svgDomId |-> "svg-sprite", inject |-> "none",
               fileName |-> "sprite.svg"]
    /\ host = [mode |-> "build"]
    /\ limits = [changes |-> 0, passes |-> 0, hooks |-> 0]
    /\ \E dest \in Destinations :
          disk = [d \in Dests |-> IF d = "public" THEN dest ELSE NoFile]
    /\ Fresh
    /\ scan = NoScan
    /\ svgCache = EmptyCache

\* writeSpriteToFile('public', fileName, content) for any content
WriteSprite(f, content) ==
    /\ Write("public", f, content, log)
    /\ UNCHANGED <<build, synced, page, limits, opts, host, devWatchers, scan, phase, spriteContent, svgCache, collectedDefs,
                   watcher, hasGeneratedSprite, passes, timer, timerArg,
                   serverHooked, modLoaded, fs, gone, changes, hookCalls,
                   ioDone, hookError, win, tally, done>>

NextWrite == \E f \in Faults, content \in Contents : WriteSprite(f, content)

SpecWrite == InitWrite /\ [][NextWrite]_vars

\* ------------------------------------------------ symbol building alone
\* Icon files under nested and equally named directories, and one directly
\* under the working directory.
FileNavHome == P(<<"icons", "nav">>, "home", ".svg")
FileNavSettings == P(<<"icons", "nav">>, "settings", ".svg")
FileAltHome == P(<<"assets", "nav">>, "home", ".svg")
FileRoot == P(<<>>, "logo", ".svg")
SymbolFiles == {FileNavHome, FileNavSettings, FileAltHome, FileRoot}
SymbolContents == {"plain", "defs", "ident", "loose", "broken"}

TplIconName == <<"icon-", "[name]">>
TplTwice == <<"[name]", "/", "[dir]", "-", "[name]">>
SymbolTemplates == {TplDirName, TplIconName, TplTwice}

\* the files one pass finds, in a completion order, each with the content
\* its read returns: at most MaxIcons files, none twice
Batches ==
    {b \in UNION {[1..n -> [path : SymbolFiles, read : SymbolContents]] : n \in 1..MaxIcons} :
        \A i, j \in 1..Len(b) : b[i].path = b[j].path => i = j}

\* the per-file callbacks of one pass, run in the order of batch
RECURSIVE ProcessAll(_, _)
ProcessAll(batch, acc) ==
    IF batch = <<>> THEN acc
    ELSE LET r == ProcessFile(Head(batch).path, Head(batch).read, acc.cache, acc.defs)
         IN ProcessAll(Tail(batch),
                       [cache |-> r.cache, defs |-> r.defs,
                        symbols |-> acc.symbols \o r.entry,
                        failed |-> IF r.failed THEN acc.failed \cup {Head(batch).path}
                                   ELSE acc.failed,
                        log |-> acc.log \cup r.log])

InitSymbol ==
    /\ \E v \in Variants, tpl \in SymbolTemplates :
          opts = [variant |-> v, symbolId |-> tpl, svgDomId |-> "svg-sprite",
                  inject |-> "body-last", fileName |-> "none"]
    /\ host = [mode |-> "build"]
    /\ limits = [changes |-> 0, passes |-> 0, hooks |-> 0]
    /\ disk = [d \in Dests |-> NoFile]
    /\ Fresh
    /\ scan = NoScan
    /\ svgCache = [p \in SymbolFiles |-> NoEntry]

\* the first generateSvgSprite of an instance, over batch
GenerateSvgSprite(batch) ==
    /\ done.n = 0
    /\ LET r == ProcessAll(batch,
                    [cache |-> svgCache, defs |-> collectedDefs,
                     symbols |-> <<>>, failed |-> {}, log |-> log])
       IN /\ svgCache' = r.cache
          /\ collectedDefs' = r.defs
          /\ log' = IF r.symbols = <<>> THEN r.log \cup {WarnEmpty} ELSE r.log
          /\ spriteContent' = AssembleSprite(opts.variant, opts.svgDomId, r.defs,
                                              Frags(r.symbols))
          /\ done' = [last |-> [caller |-> "generateSvgSprite", symbols |-> r.symbols,
                                failed |-> r.failed, at |-> NoPass.at,
                                stable |-> TRUE],
                      n |-> 1]
    /\ UNCHANGED <<build, synced, page, limits, opts, host, devWatchers, scan, phase, watcher,
                   hasGeneratedSprite, passes, timer, timerArg, serverHooked,
                   modLoaded, fs, gone, disk, changes, hookCalls, ioDone,
                   hookError, win, tally, lastWrite>>

NextSymbol == \E batch \in Batches : GenerateSvgSprite(batch)

SpecSymbol == InitSymbol /\ [][NextSymbol]_vars

\* -------------------------------------------- scanDirForSvgFiles alone
\* Directory trees under icons/: files, subdirectories two levels deep and
\* symbolic links, some of which point back at a directory above them.  to
\* is the directory a link points at.
Entry(base, ext, kind, to) == [base |-> base, ext |-> ext, kind |-> kind, to |-> to]
RootDir == DirIcons
NavDir == RootDir \o <<"nav">>
DeepDir == NavDir \o <<"deep">>

RootPool ==
    {Entry("a", ".svg", "file", <<>>), Entry("notes", ".txt", "file", <<>>),
     Entry("nav", "", "dir", <<>>), Entry("self", "", "link", RootDir),
     Entry("alias", ".svg", "link", NavDir)}
NavPool ==
    {Entry("a", ".svg", "file", <<>>), Entry("b", ".svg", "file", <<>>),
     Entry("deep", "", "dir", <<>>), Entry("up", "", "link", RootDir)}
DeepPool ==
    {Entry("c", ".svg", "file", <<>>), Entry("back", "", "link", NavDir)}

\* the listings readdirSync may return for a directory: at most MaxEntries
\* entries of pool, none twice
Listings(pool) ==
    {l \in UNION {[1..n -> pool] : n \in 0..MaxEntries} :
        \A i, j \in 1..Len(l) : l[i] = l[j] => i = j}

Holds(listing, base) == \E i \in 1..Len(listing) : listing[i].base = base

Tree(r, n, d) ==
    [dir \in {RootDir}
              \cup (IF Holds(r, "nav") THEN {NavDir} ELSE {})
              \cup (IF Holds(r, "nav") /\ Holds(n, "deep") THEN {DeepDir} ELSE {}) |->
        IF dir = RootDir THEN r ELSE IF dir = NavDir THEN n ELSE d]

Trees == {Tree(r, n, d) : r \in Listings(RootPool), n \in Listings(NavPool),
                          d \in Listings(DeepPool)}

InitScan ==
    /\ opts = [variant |-> "current", symbolId |-> TplDirName,
               svgDomId |-> "svg-sprite", inject |-> "none",
               fileName |-> "none"]
    /\ host = [mode |-> "build"]
    /\ limits = [changes |-> 0, passes |-> 0, hooks |-> 0]
    /\ disk = [d \in Dests |-> NoFile]
    /\ Fresh
    /\ svgCache = EmptyCache
    /\ \E ls \in Trees : scan = [called |-> FALSE, ls |-> ls, result |-> <<>>]

\* scanDirForSvgFiles(dir) on the root of the tree
ScanDir ==
    /\ ~scan.called
    /\ scan' = [called |-> TRUE, ls |-> scan.ls,
                result |-> scanDirForSvgFiles(scan.ls, RootDir)]
    /\ UNCHANGED <<build, synced, page, limits, opts, host, devWatchers, phase,
                   spriteContent, svgCache, collectedDefs, watcher,
                   hasGeneratedSprite, passes, timer, timerArg, serverHooked,
                   modLoaded, fs, gone, disk, log, changes, hookCalls, ioDone,
                   hookError, win, tally, lastWrite, done>>

NextScan == ScanDir

SpecScan == InitScan /\ [][NextScan]_vars

\* ================================================================= claims

\* C1: constructing the plugin with a symbolId template that lacks the
\* [name] token throws at construction: no plugin is returned (the instance
\* never gets past "thrown"), and no directory scan, file read, file write
\* or watcher creation has happened.
C1_NameTokenRequired ==
    ~IncludesName(opts.symbolId) =>
        /\ phase \in {"new", "thrown"}
        /\ ~ioDone
        /\ watcher = "null"
        /\ passes = <<>>
        /\ disk = [d \in Dests |-> NoFile]

\* C1 (witness): a construction with such a template has thrown
C1_Thrown == phase = "thrown" /\ ~IncludesName(opts.symbolId)

\* C2: constructing the plugin with neither an inject position nor a
\* fileName throws at construction: an instance with no delivery mechanism
\* never exists.
C2_DeliveryRequired ==
    (opts.inject = "none" /\ opts.fileName = "none") => phase \in {"new", "thrown"}

\* the handlers that answer a change event
ChangeCallers == {"watchChange", "devChange", "legacyChange"}

\* C3: after a qualifying .svg change event is handled, no cache entry
\* computed before the event remains and the stored document holds exactly
\* one symbol per .svg file of that pass, built from the content read in
\* that pass: every symbol of the pass a change handler ran is the fragment
\* of the content its own read returned, and no path has two symbols.
C3_SymbolsFromThisPass ==
    done.last.caller \in ChangeCallers =>
        LET symbols == done.last.symbols
        IN /\ \A k \in 1..Len(symbols) :
                 symbols[k].frag =
                    BuildSymbol(opts.variant, opts.symbolId, symbols[k].path,
                                optimize(Text(symbols[k].read))).frag
           /\ \A j, k \in 1..Len(symbols) :
                 symbols[j].path = symbols[k].path => j = k

\* C4: a burst of qualifying .svg change events that all arrive within the
\* debounce window triggers exactly one generation pass: never more than
\* one while the window is open, and one once it has closed on a burst
\* with a qualifying event in it.
C4_OnePassPerBurst ==
    /\ win.passes <= 1
    /\ ~win.open /\ win.events >= 1 => win.passes = 1

\* C5: in a dev session every regeneration a burst of .svg changes
\* triggered is followed by exactly one reload notification, the virtual
\* module loaded or not.
C5_ReloadPerRegeneration ==
    host.mode = "serve" => tally.reloads = tally.regens

\* C6: two consecutive passes over the same unchanged icon files store the
\* same document: when a pass completes after another, neither was
\* disturbed by a change and both scanned the same file system, the stored
\* document does not change.
C6_SameFilesSameDocument ==
    [][/\ done'.n = done.n + 1
       /\ done.n >= 1
       /\ done.last.stable /\ done'.last.stable
       /\ done'.last.at = done.last.at
       => spriteContent' = spriteContent]_vars

\* what the claim calls the sprite content trimmed and followed by exactly
\* one newline
Normalized(content) ==
    LET solid == {i \in 1..Len(content) : ~IsSpace(content[i])}
    IN IF solid = {} THEN <<NL>>
       ELSE LET first == CHOOSE i \in solid : \A j \in solid : i <= j
                last == CHOOSE i \in solid : \A j \in solid : j <= i
            IN SubSeq(content, first, last) \o <<NL>>

\* C7: writeSpriteToFile makes no write when the destination file exists
\* with the normalized content; otherwise, when no error occurs, the
\* destination directory exists afterwards and the file holds exactly the
\* normalized content.
C7_WriteOnlyWhenDifferent ==
    lastWrite.called =>
        LET same == /\ lastWrite.before.present
                    /\ lastWrite.before.data = Normalized(lastWrite.content)
        IN /\ same => ~lastWrite.wrote /\ disk["public"] = lastWrite.before
           /\ ~same /\ ~lastWrite.failed =>
                 /\ disk["public"].dirExists
                 /\ disk["public"].present
                 /\ disk["public"].data = Normalized(lastWrite.content)

\* C7 (witness): a call that found the file with a document but without
\* the final newline and wrote, and the content passed had white space
\* around it
C7_Rewritten ==
    /\ lastWrite.called /\ lastWrite.wrote
    /\ lastWrite.before.present
    /\ lastWrite.before.data # <<>>
    /\ lastWrite.content # <<>>
    /\ IsSpace(lastWrite.content[1])
    /\ IsSpace(lastWrite.content[Len(lastWrite.content)])

\* the read of filePath by the i-th pass in flight settles in this step and
\* its callback ends in the catch
ReadFails(i, filePath) ==
    /\ filePath \in passes[i].pending
    /\ filePath \notin passes[i].failed
    /\ \/ /\ Len(passes') = Len(passes)
          /\ passes'[i].pending = passes[i].pending \ {filePath}
          /\ filePath \in passes'[i].failed
          /\ passes'[i].symbols = passes[i].symbols
       \/ /\ passes' = RemoveAt(passes, i)
          /\ passes[i].pending = {filePath}
          /\ done'.n = done.n + 1
          /\ filePath \in done'.last.failed
          /\ done'.last.symbols = passes[i].symbols

\* the symbol the last completed pass appended for filePath is in document
InDocument(filePath, document) ==
    \E k \in 1..Len(done'.last.symbols) :
        /\ done'.last.symbols[k].path = filePath
        /\ \E j \in 1..Len(document) : document[j] = done'.last.symbols[k].frag

\* C8: when reading or processing one icon file fails during a pass, the
\* error is logged with that file's path, the read leaves the cache and the
\* definitions as they were and appends no symbol, the pass still
\* completes, and the document it stores holds the symbol of every other
\* file of the pass and none for the failed one.
C8_FailureIsolated ==
    [][/\ \A i \in 1..Len(passes) : \A filePath \in SvgFiles :
             ReadFails(i, filePath) =>
                /\ ErrRead(filePath) \in log'
                /\ svgCache' = svgCache
                /\ collectedDefs' = collectedDefs
       /\ done'.n = done.n + 1 =>
             \A filePath \in SvgFiles :
                /\ filePath \in done'.last.failed =>
                      /\ ErrRead(filePath) \in log'
                      /\ ~InDocument(filePath, spriteContent')
                /\ done'.last.at[filePath] # "absent"
                      /\ filePath \notin done'.last.failed
                      => InDocument(filePath, spriteContent')]_vars

\* C8 (witness): a pass has completed in which one file failed and another
\* gave its symbol
C8_OneFailedOthersKept ==
    /\ done.n >= 1
    /\ done.last.failed # {}
    /\ Len(done.last.symbols) > 0

\* C9: no failure other than the construction-time errors leaves a hook or
\* a change handler: configResolved never fails and no handler ends with
\* an error nothing caught.
C9_HooksNeverFail ==
    phase # "failed" /\ ~hookError

\* C10: when a pass yields no symbol (no .svg file found, or every file
\* failed), the stored document is the empty root container with the
\* configured id, with no defs and no symbol child, and the warning is
\* logged.
C10_EmptySprite ==
    done.n >= 1 /\ done.last.symbols = <<>> =>
        /\ Len(spriteContent) = 2
        /\ spriteContent[1].k = "svg"
        /\ GetAttr(spriteContent[1].attrs, "id") = opts.svgDomId
        /\ spriteContent[2] = SvgClose
        /\ WarnEmpty \in log

\* C10 (witness): a pass in which every file failed has completed
C10_EveryFileFailed ==
    /\ done.n >= 1
    /\ done.last.symbols = <<>>
    /\ done.last.failed # {}

\* the children of the body element of a page
BodyOf(html) == Load(html).body

\* C11: transformIndexHtml with inject 'body-last' returns the page with the
\* current Sprite Document as the last child of the body element, with
\* inject 'body-first' as the first child, and with inject unset returns the
\* supplied markup unchanged; and with inject unset and a fileName set, a
\* build in which generateBundle has been invoked has written the sprite
\* file at bundle generation.
C11_InjectAndFileOutput ==
    /\ page.called =>
          LET body == BodyOf(page.result)
              n == Len(page.sprite)
          IN /\ opts.inject = "body-last" =>
                   /\ Len(body) >= n
                   /\ SubSeq(body, Len(body) - n + 1, Len(body)) = page.sprite
             /\ opts.inject = "body-first" =>
                   /\ Len(body) >= n
                   /\ SubSeq(body, 1, n) = page.sprite
             /\ opts.inject = "none" => page.result = page.html
    /\ (opts.inject = "none" /\ opts.fileName # "none" /\ build.bundled)
          => build.writes >= 1

\* the symbols of the pass that completed last
Symbols == done.last.symbols
SymbolIds == [k \in 1..Len(Symbols) |-> GetAttr(Symbols[k].frag.attrs, "id")]
SourceAttrs(k) == Text(Symbols[k].read).attrs

\* C12: for every processed icon, the id attribute of its symbol in the
\* Sprite Document is the identifier generated from the file path and the
\* symbolId template, whatever attributes the source root element carries,
\* an id of its own included.
C12_SymbolIdIsGenerated ==
    \A k \in 1..Len(Symbols) :
        SymbolIds[k] = generateSymbolId(opts.symbolId, Symbols[k].path)

\* C13: the Sprite Document never contains two symbols with the same
\* identifier: of two files that resolve to the same generated identifier
\* only one has a symbol in the document.
C13_NoTwoSymbolsOneId ==
    LET doc == SelectSeq(spriteContent, LAMBDA c : c.k = "symbol")
    IN \A j, k \in 1..Len(doc) :
          GetAttr(doc[j].attrs, "id") = GetAttr(doc[k].attrs, "id") => j = k

\* the template with every [dir] and every [name] replaced
Substituted(tpl, dirName, name) ==
    SelectSeq([i \in 1..Len(tpl) |->
                  IF tpl[i] = "[dir]" THEN dirName
                  ELSE IF tpl[i] = "[name]" THEN name ELSE tpl[i]],
              IsNonEmpty)

\* C14: generateSymbolId returns the template with [dir] replaced by the
\* base name of the directory immediately containing the file (the empty
\* string when there is none under the working directory) and [name] by the
\* file's base name without extension; icons/nav/home.svg under
\* '[dir]-[name]' gives 'nav-home'; neither token remains in the result.
C14_TokensReplaced ==
    \A k \in 1..Len(Symbols) :
        LET filePath == Symbols[k].path
            id == generateSymbolId(opts.symbolId, filePath)
            dirName == IF filePath.dir = <<>> THEN ""
                       ELSE filePath.dir[Len(filePath.dir)]
        IN /\ id = Substituted(opts.symbolId, dirName, filePath.base)
           /\ \A i \in 1..Len(id) : id[i] \notin {"[dir]", "[name]"}
           /\ (opts.symbolId = TplDirName /\ filePath = FileNavHome)
                 => id = <<"nav", "-", "home">>

C16_AttributesCarried ==
    \A k \in 1..Len(Symbols) :
        LET symAttrs == Symbols[k].frag.attrs
        IN /\ \A i \in 1..Len(SourceAttrs(k)) :
                 LET key == SourceAttrs(k)[i][1]
                 IN key \notin {"width", "height"} =>
                       /\ HasAttr(symAttrs, key)
                       /\ GetAttr(symAttrs, key) = SourceAttrs(k)[i][2]
           /\ ~HasAttr(symAttrs, "width")
           /\ ~HasAttr(symAttrs, "height")

\* a step in which writeSpriteToFile is called and catches an error
FailedWrite == lastWrite'.tick # lastWrite.tick /\ lastWrite'.failed

\* C17: when creating the destination directory or reading or writing the
\* destination file fails, writeSpriteToFile logs the error and returns
\* normally: the hook or handler that called it goes on as after a write
\* that succeeded (no error reaches the host, the phase is as before), the
\* in-memory Sprite Document is the content that was to be written, the
\* cache is what the caller left, generateBundle of the current variant has
\* set the generation flag all the same, and the destination is not touched
\* again in the step.
C17_WriteFailureContained ==
    [][FailedWrite =>
          /\ ErrWrite \in log'
          /\ hookError' = hookError
          /\ phase' = phase
          /\ spriteContent' = lastWrite'.content
          /\ disk' = disk
          /\ build'.bundled /\ ~build.bundled /\ opts.variant = "current"
                => hasGeneratedSprite' /\ svgCache' = svgCache]_vars

\* C17 (witness): generateBundle's write has failed, the error is logged,
\* no file is there, the flag is set and the plugin runs on
C17_FailedBundleWrite ==
    /\ lastWrite.called /\ lastWrite.failed
    /\ build.bundled
    /\ hasGeneratedSprite
    /\ ErrWrite \in log
    /\ phase = "running" /\ ~hookError
    /\ \A d \in Dests : disk[d] = NoFile

\* C18: in every build, each rebuild of a watch session included, once
\* generateBundle has been invoked the sprite file has been written at that
\* hook exactly once when fileName is configured, however many times the
\* hook is invoked during the build.  Stated for the current variant.
C18_OneWritePerBuild ==
    (opts.variant = "current" /\ opts.fileName # "none" /\ build.bundled)
        => build.writes = 1

\* C19: every write of the sprite file of one plugin instance goes to one
\* directory, the configured output directory or else the one inferred from
\* the host build: the write at bundle generation and the rewrite by the
\* watcher target the same file, so at most one destination ever holds a
\* sprite file.
C19_OneDestination ==
    \A d, e \in Dests : (disk[d].present /\ disk[e].present) => d = e

\* what one pass over the file system files leaves in the cache: the symbol
\* of every .svg file that is there and that svgo accepts
OnePass(files) ==
    [p \in SvgFiles |->
        IF files[p] = "absent" \/ OptimizeThrows(Text(files[p])) THEN NoEntry
        ELSE BuildSymbol(opts.variant, opts.symbolId, p, optimize(Text(files[p]))).frag]

\* every change of an .svg file has been answered by a handler, no pass is
\* in flight and no timer is armed
Settled ==
    /\ synced
    /\ passes = <<>>
    /\ timer = "idle"
    /\ gone = {}
    /\ done.last.caller \in ChangeCallers

\* C20: after the last qualifying change event has been handled and every
\* generation pass has completed, the stored Sprite Document and the cache
\* are those of a single pass over the final file-system state: the
\* document holds exactly one symbol for each file that pass gives a symbol,
\* the cache exactly those entries, whatever passes overlapped and in
\* whatever order their reads completed.
C20_SettlesOnFinalState ==
    Settled =>
        LET want == OnePass(fs)
            doc == SelectSeq(spriteContent, LAMBDA c : c.k = "symbol")
        IN /\ svgCache = want
           /\ {doc[i] : i \in 1..Len(doc)} = {want[p] : p \in SvgFiles} \ {NoEntry}
           /\ Len(doc) = Cardinality({p \in SvgFiles : want[p] # NoEntry})

\* the paths one call of generateSvgSprite enumerates over the file system
\* files: the icon directories in configured order, each in traversal order
RECURSIVE EnumerateFrom(_, _)
EnumerateFrom(ls, i) ==
    IF i > Len(IconDirs) THEN <<>>
    ELSE (IF ScanThrows(ls, IconDirs[i]) THEN <<>>
          ELSE scanDirForSvgFiles(ls, IconDirs[i])) \o EnumerateFrom(ls, i + 1)

Enumeration(files) == EnumerateFrom(Ls(files, {}), 1)

Position(s, x) == CHOOSE i \in 1..Len(s) : s[i] = x

\* C21: the symbols of the stored document are in enumeration order (icon
\* directories in configured order, the files of each in traversal order),
\* whatever order the reads of the pass completed in: of two symbols the
\* earlier one belongs to the file enumerated earlier.
C21_EnumerationOrder ==
    done.n >= 1 =>
        LET symbols == done.last.symbols
            order == Enumeration(done.last.at)
        IN \A j, k \in 1..Len(symbols) :
              j < k => Position(order, symbols[j].path) < Position(order, symbols[k].path)

\* the file watchers the plugin has created and not closed: the one behind
\* the watcher handle, and those the legacy watchSvgDirs started
ActiveWatchers == (IF watcher = "active" THEN 1 ELSE 0) + devWatchers

\* C22: after any sequence of configResolved, configureServer and
\* closeBundle calls on one plugin instance at most one file watcher created
\* by the plugin is active.
C22_SingleWatcher == ActiveWatchers <= 1

\* C23: once the session's final closeBundle has run, no watcher the plugin
\* created is still active and the watcher handle is null.
C23_WatcherStoppedAtEnd ==
    phase = "closed" => (watcher = "null" /\ ActiveWatchers = 0)

\* C24: when a fileName is configured, no generation pass is in progress and
\* no write has failed, the sprite file on disk holds the stored document,
\* normalized to one trailing newline, once a change event has been handled
\* in a dev session or in a watching build.
C24_FileMatchesDocument ==
    (/\ opts.fileName # "none"
     /\ done.last.caller \in ChangeCallers
     /\ passes = <<>>
     /\ ErrWrite \notin log)
        => \E d \in Dests :
              disk[d].present /\ disk[d].data = Normalized(spriteContent)

\* the defs section of a document: what stands between <defs> and </defs>
DefsSection(doc) == Between(doc, "defs", "/defs")

\* what the inner content of a defs block looks like in the Definitions Pool
Pooled(inner) == Chunk("defs-inner", <<>>, <<inner>>)

\* the inner contents of the defs blocks among the children a symbol holds
DefsBlocks(frag) ==
    {frag.kids[i].inner : i \in {j \in 1..Len(frag.kids) : frag.kids[j].tag = "defs"}}

\* C25: after any sequence of generation passes and change events the defs
\* section of the stored document holds the definitions of each icon of the
\* document exactly once, and nothing that no icon of the document
\* contributed.
C25_DefsOfThisDocument ==
    (done.n >= 1 /\ opts.variant = "current") =>
        LET symbols == done.last.symbols
            section == DefsSection(spriteContent)
            wanted == UNION {DefsBlocks(symbols[k].frag) : k \in 1..Len(symbols)}
        IN /\ \A b \in wanted :
                 Cardinality({i \in 1..Len(section) : section[i] = Pooled(b)}) = 1
           /\ \A i \in 1..Len(section) : \E b \in wanted : section[i] = Pooled(b)

\* C26: in one generation pass the inner content of every processed icon's
\* defs block is in the document's single defs container, which stands
\* before every symbol; when no processed icon has a defs block the
\* document has no defs container.
C26_DefsCollected ==
    (done.n >= 1 /\ opts.variant = "current") =>
        LET symbols == done.last.symbols
            blocks == UNION {DefsBlocks(BuildSymbol(opts.variant, opts.symbolId,
                                            symbols[k].path,
                                            optimize(Text(symbols[k].read))).frag) :
                                k \in 1..Len(symbols)}
            doc == spriteContent
        IN IF blocks = {}
           THEN IndexOf(doc, "defs") = 0
           ELSE /\ Cardinality({i \in 1..Len(doc) : doc[i].k = "defs"}) = 1
                /\ \A b \in blocks :
                      \E i \in 1..Len(DefsSection(doc)) : DefsSection(doc)[i] = Pooled(b)
                /\ \A i \in 1..Len(doc) :
                      doc[i].k = "symbol" => IndexOf(doc, "/defs") < i

\* C27: the notification a change handler issues (client reload with the
\* virtual module invalidated, or entry-file touch) comes after the pass has
\* completed and the new document is stored and, when a fileName is
\* configured and no write has failed, after the sprite file has been
\* rewritten: the last notification found the file holding the document.
C27_NotifiedAfterWrite ==
    (/\ opts.fileName # "none"
     /\ tally.reloads + tally.touches > 0
     /\ ErrWrite \notin log)
        => tally.fileFirst

\* the entries of a tree that are not directories and whose name ends in
\* .svg, as paths
SvgEntries(ls) ==
    UNION {{P(d, ls[d][i].base, ls[d][i].ext) :
               i \in {j \in 1..Len(ls[d]) : /\ ls[d][j].kind # "dir"
                                             /\ EndsWithSvg(ls[d][j])}} :
           d \in DOMAIN ls}

\* where a directory or an entry stands in the listings above it: the
\* indices, from the root down
RECURSIVE DirKey(_, _)
DirKey(ls, dir) ==
    IF dir = RootDir THEN <<>>
    ELSE LET parent == SubSeq(dir, 1, Len(dir) - 1)
             at == CHOOSE i \in 1..Len(ls[parent]) :
                      ls[parent][i].base = dir[Len(dir)] /\ ls[parent][i].kind = "dir"
         IN Append(DirKey(ls, parent), at)

ListingKey(ls, p) ==
    Append(DirKey(ls, p.dir),
           CHOOSE i \in 1..Len(ls[p.dir]) :
              ls[p.dir][i].base = p.base /\ ls[p.dir][i].ext = p.ext)

RECURSIVE ListedBefore(_, _)
ListedBefore(a, b) ==
    IF a = <<>> \/ b = <<>> THEN FALSE
    ELSE IF Head(a) # Head(b) THEN Head(a) < Head(b)
    ELSE ListedBefore(Tail(a), Tail(b))

\* C28: scanDirForSvgFiles returns on every finite tree, symbolic links that
\* form a cycle included, with exactly the paths of the entries (files and
\* links; a directory is descended into) whose name ends in .svg, at any
\* depth, each once, in directory-listing order.
C28_ScanReturnsSvgEntries ==
    scan.called =>
        LET result == scan.result
        IN /\ SeqToSet(result) = SvgEntries(scan.ls)
           /\ \A i, j \in 1..Len(result) : result[i] = result[j] => i = j
           /\ \A i, j \in 1..Len(result) :
                 i < j => ListedBefore(ListingKey(scan.ls, result[i]),
                                       ListingKey(scan.ls, result[j]))

\* a tree two levels deep in which links point back at the directories
\* above them has been scanned, and files of every level were returned
C28_CycleScanned ==
    /\ scan.called
    /\ DeepDir \in DOMAIN scan.ls
    /\ \E i \in 1..Len(scan.ls[NavDir]) :
          scan.ls[NavDir][i].kind = "link" /\ scan.ls[NavDir][i].to = RootDir
    /\ \E i \in 1..Len(scan.ls[DeepDir]) :
          scan.ls[DeepDir][i].kind = "link" /\ scan.ls[DeepDir][i].to = NavDir
    /\ \E i, j \in 1..Len(scan.result) :
          scan.result[i].dir = RootDir /\ scan.result[j].dir = DeepDir

====
